---- MODULE Spec2Model ----
(***************************************************************************)
(* A model of the chat server's in-process data layer:                     *)
(*   - the numeric-id store (MemStorage of src/unnamed/part_000) together  *)
(*     with the HTTP handlers of src/server/routes.ts that drive it;       *)
(*   - the conversation-keyed store (MemStorage of src/unnamed/part_001).  *)
(* Every async function is cut at its await points: the synchronous prefix *)
(* of a call runs in the step that makes the call, and the code after an   *)
(* await runs in a later step, so other requests may run in between.       *)
(***************************************************************************)
EXTENDS Integers, Sequences, FiniteSets, TLC

(***************************************************************************)
(* Bounds of the model.                                                    *)
(***************************************************************************)
\* distinct external (Firebase) uids that sign in
MaxUids == 2
\* rows the users map may hold (the id counter stops there)
MaxUserRows == 2
\* chats created (the chat id counter stops there)
MaxChats == 1
\* membership rows ever inserted (the membership id counter stops there)
MaxMemberRows == 4
\* messages created (the message id counter stops there)
MaxMessages == 2
\* statuses created (the status id counter stops there)
MaxStatuses == 2
\* conversations created (the conversation id counter stops there)
MaxConversations == 1
\* StatusView rows recorded (the status-view id counter stops there)
MaxStatusViews == 3
\* the clock stops there; one unit is one hour
MaxTime == 2
\* the clock of the feed specification stops there (past one expiry period)
MaxFeedTime == 27
\* WebSocket connections accepted
MaxConns == 2
MaxMemberIds == 2
\* requests in flight at once
MaxInFlight == 2
\* The group capacity.  The handler compares against 2000
\* (src/server/routes.ts:238); the model runs the same comparison against a
\* small capacity so that a full group is reachable.
MAX_GROUP_MEMBERS == 2
\* hours a status lives: expiresAt.setHours(expiresAt.getHours() + 24)
STATUS_EXPIRY_HOURS == 24

None == 0

Uids == 1..MaxUids
UserIds == 1..MaxUserRows
ChatIds == 1..MaxChats
Slots == 1..MaxInFlight
ConversationIds == 1..MaxConversations
Conns == 1..MaxConns
ChatTypes == {"direct", "group"}
Contents == {"a", "b"}
\* an expiry a client may put in the body of a create-status request
ClientExpiries == {None, 1000}

Min(S) == CHOOSE x \in S : \A y \in S : x <= y
Max(S) == CHOOSE x \in S : \A y \in S : x >= y

VARIABLES
  \* ---- numeric-id store (part_000) ----
  users,                \* Map<number, User>: id -> [firebaseUid]
  userIdCounter,
  chats,                \* Map<number, Chat>: id -> [type, createdBy, ...]
  chatIdCounter,
  chatMembers,          \* Map<number, ChatMember>: id -> [chatId, userId, isAdmin]
  chatMemberIdCounter,
  messages,             \* Map<number, Message>: id -> [chatId, senderId, content, timestamp, readBy]
  messageIdCounter,
  statuses,             \* Map<number, Status>: id -> [userId, content, timestamp, expiresAt, viewedBy]
  statusIdCounter,
  \* ---- conversation-keyed store (part_001); user ids are external uids ----
  csUsers,                \* the field users: id -> [id, uid]
  usersByUid,             \* Map<string, User>
  csUserId,               \* the field userId
  conversations,          \* Map<number, Conversation>: id -> [id, createdBy, memberCount, lastMessage, lastMessageAt]
  conversationMembers,    \* Map<number, ConversationMember[]>
  csConversationId,       \* the field conversationId
  conversationMemberId,   \* the field conversationMemberId
  csMessages,             \* the field messages: id -> [id, conversationId, senderId, text, createdAt, readBy]
  messagesByConversation, \* Map<number, Message[]>
  csMessageId,            \* the field messageId
  csStatuses,             \* the field statuses: id -> [id, userId, createdAt, viewCount, viewedBy]
  statusesByUser,         \* Map<string, Status[]>
  statusViews,            \* Map<number, StatusView[]>
  csStatusId,             \* the field statusId
  csStatusViewId,         \* the field statusViewId
  \* ---- the WebSocket server (routes.ts) ----
  sockets,                \* each connection: its readyState and the userId of its handler's closure
  clients,                \* const clients = new Map<string, WebSocket>()
  \* ---- which MemStorage module the process runs on ----
  loaded,
  \* ---- the clock read by new Date() ----
  now,
  \* ---- async operations ----
  reqs,                 \* operations in flight: slot -> the locals of the suspended code
  resp                  \* the outcome most recently produced (an HTTP response, a return, a throw)

userVars == <<users, userIdCounter>>
chatVars == <<chats, chatIdCounter>>
memberVars == <<chatMembers, chatMemberIdCounter>>
messageVars == <<messages, messageIdCounter>>
statusVars == <<statuses, statusIdCounter>>
storeA == <<userVars, chatVars, memberVars, messageVars, statusVars>>
conversationVars == <<conversations, conversationMembers, csConversationId, conversationMemberId>>
csMessageVars == <<csMessages, messagesByConversation, csMessageId>>
csStatusVars == <<csStatuses, statusesByUser, statusViews, csStatusId, csStatusViewId>>
csUserVars == <<csUsers, usersByUid, csUserId>>
storeB == <<csUserVars, conversationVars, csMessageVars, csStatusVars>>
wsVars == <<sockets, clients>>
vars == <<storeA, storeB, loaded, wsVars, now, reqs, resp>>

Idle == [op |-> "idle"]
NoResp == [op |-> "none", status |-> 0]
\* a text column that holds null
NoText == "<null>"
Numeric == "part_000"
Conversation == "part_001"

InFlight(r) == reqs[r].op # "idle"
NoneInFlight == \A r \in Slots : ~InFlight(r)
\* Slots are interchangeable: a new request takes the first idle one.
FirstIdle(r) == ~InFlight(r) /\ \A s \in Slots : s < r => InFlight(s)
\* A sign-in or create-chat request is in flight; the specifications let
\* these run alone.
SetupInFlight == \E r \in Slots : reqs[r].op \in {"session", "createChat"}

\* A Map with one entry set (Map.prototype.set).
MapSet(m, k, v) == [x \in (DOMAIN m) \cup {k} |-> IF x = k THEN v ELSE m[x]]
\* A Map with one entry deleted (Map.prototype.delete).
MapDelete(m, k) == [x \in (DOMAIN m) \ {k} |-> m[x]]
EmptyMap == [x \in {} |-> None]

Init ==
  /\ users = EmptyMap
  /\ userIdCounter = 1
  /\ chats = EmptyMap
  /\ chatIdCounter = 1
  /\ chatMembers = EmptyMap
  /\ chatMemberIdCounter = 1
  /\ messages = EmptyMap
  /\ messageIdCounter = 1
  /\ statuses = EmptyMap
  /\ statusIdCounter = 1
  /\ csUsers = EmptyMap
  /\ usersByUid = EmptyMap
  /\ csUserId = 1
  /\ conversations = EmptyMap
  /\ conversationMembers = EmptyMap
  /\ csConversationId = 1
  /\ conversationMemberId = 1
  /\ csMessages = EmptyMap
  /\ messagesByConversation = EmptyMap
  /\ csMessageId = 1
  /\ csStatuses = EmptyMap
  /\ statusesByUser = EmptyMap
  /\ statusViews = EmptyMap
  /\ csStatusId = 1
  /\ csStatusViewId = 1
  /\ loaded \in {Numeric, Conversation}
  /\ sockets = [c \in Conns |-> [readyState |-> "NONE", userId |-> None]]
  /\ clients = EmptyMap
  /\ now = 1
  /\ reqs = [r \in Slots |-> Idle]
  /\ resp = NoResp

\* The server of routes.ts: its ./storage is the numeric-id store.
InitNumeric == Init /\ loaded = Numeric
\* A process that runs on the conversation-keyed store.
InitConversation == Init /\ loaded = Conversation

(***************************************************************************)
(* The numeric-id store.                                                   *)
(***************************************************************************)
\* getUserByFirebaseUid: the first user, in insertion order, with that uid.
getUserByFirebaseUid(uid) ==
  LET ids == {i \in DOMAIN users : users[i].firebaseUid = uid}
  IN  IF ids = {} THEN None ELSE Min(ids)

\* getChatMembers: the membership rows of a chat (the ids of the rows).
getChatMembers(chatId) ==
  {i \in DOMAIN chatMembers : chatMembers[i].chatId = chatId}

\* removeChatMember: find() gives the first row of the pair, if any.
memberToRemove(chatId, userId) ==
  LET ids == {i \in DOMAIN chatMembers :
                 chatMembers[i].chatId = chatId /\ chatMembers[i].userId = userId}
  IN  IF ids = {} THEN None ELSE Min(ids)

\* A row under the lowest id no row holds.
addChatMember_ReuseFreedId(chatId, userId, isAdmin) ==
  /\ chatMemberIdCounter <= MaxMemberRows
  /\ chatMembers' = MapSet(chatMembers,
                           Min((1..chatMemberIdCounter) \ DOMAIN chatMembers),
                           [chatId |-> chatId, userId |-> userId, isAdmin |-> isAdmin])
  /\ chatMemberIdCounter' = chatMemberIdCounter + 1

\* addChatMember: a new row under the next membership id.
addChatMember(chatId, userId, isAdmin) ==
  /\ chatMemberIdCounter <= MaxMemberRows
  /\ chatMembers' = MapSet(chatMembers, chatMemberIdCounter,
                           [chatId |-> chatId, userId |-> userId, isAdmin |-> isAdmin])
  /\ chatMemberIdCounter' = chatMemberIdCounter + 1

\* createChat: a new chat under the next chat id, with no last message yet.
createChat(type, name, createdBy) ==
  /\ chatIdCounter <= MaxChats
  /\ chats' = MapSet(chats, chatIdCounter,
                     [type |-> type, name |-> name, createdBy |-> createdBy,
                      lastMessage |-> NoText, lastMessageTime |-> None])
  /\ chatIdCounter' = chatIdCounter + 1

\* createUser: a new user under the next user id.
createUser(uid) ==
  /\ userIdCounter <= MaxUserRows
  /\ users' = MapSet(users, userIdCounter, [firebaseUid |-> uid])
  /\ userIdCounter' = userIdCounter + 1

\* removeChatMember(chatId, userId): deletes the first row of the pair; a
\* storage operation with no await in it, so it is one step.
RemoveChatMember(chatId, userId) ==
  /\ LET m == memberToRemove(chatId, userId)
     IN  chatMembers' = IF m # None THEN MapDelete(chatMembers, m) ELSE chatMembers
  /\ chatMemberIdCounter' = chatMemberIdCounter
  /\ UNCHANGED <<userVars, chatVars, messageVars, statusVars, storeB, loaded, wsVars, now, reqs, resp>>

(***************************************************************************)
(* The HTTP handlers (routes.ts).  A request enters at the point where its *)
(* token has been verified; uid is the verified external uid.              *)
(***************************************************************************)
Finish(r, response) ==
  /\ reqs' = [reqs EXCEPT ![r] = Idle]
  /\ resp' = response

\* A limit test that lets one member too many in.
GroupIsFull_OffByOne(n) == n > MAX_GROUP_MEMBERS

\* The member limit test of POST /api/chats/:id/members.
GroupIsFull(n) == n >= MAX_GROUP_MEMBERS

\* ---- POST /api/auth/session ----
AuthSessionStart(r, uid) ==
  /\ ~InFlight(r)
  /\ reqs' = [reqs EXCEPT ![r] =
        [op |-> "session", pc |-> "getUser", uid |-> uid,
         user |-> getUserByFirebaseUid(uid)]]
  /\ UNCHANGED <<storeA, storeB, loaded, wsVars, now, resp>>

AuthSessionGotUser(r) ==
  /\ reqs[r].op = "session" /\ reqs[r].pc = "getUser"
  /\ IF reqs[r].user = None
       THEN /\ createUser(reqs[r].uid)
            /\ Finish(r, [op |-> "session", status |-> 200])
       ELSE /\ UNCHANGED <<users, userIdCounter>>
            /\ Finish(r, [op |-> "session", status |-> 200])
  /\ UNCHANGED <<chatVars, memberVars, messageVars, statusVars, storeB, loaded, wsVars, now>>

\* ---- POST /api/chats ----
CreateChatStart(r, uid, type, name) ==
  /\ ~InFlight(r)
  /\ reqs' = [reqs EXCEPT ![r] =
        [op |-> "createChat", pc |-> "getUser", type |-> type, name |-> name,
         user |-> getUserByFirebaseUid(uid)]]
  /\ UNCHANGED <<storeA, storeB, loaded, wsVars, now, resp>>

CreateChatGotUser(r) ==
  /\ reqs[r].op = "createChat" /\ reqs[r].pc = "getUser"
  /\ IF reqs[r].user = None
       THEN /\ Finish(r, [op |-> "createChat", status |-> 404])
            /\ UNCHANGED <<chats, chatIdCounter>>
       ELSE IF reqs[r].type = "missing"
       THEN \* insertChatSchema.parse throws: type is required
            /\ Finish(r, [op |-> "createChat", status |-> 400])
            /\ UNCHANGED <<chats, chatIdCounter>>
       ELSE /\ createChat(reqs[r].type, reqs[r].name, reqs[r].user)
            /\ reqs' = [reqs EXCEPT ![r] =
                  [op |-> "createChat", pc |-> "createChat", user |-> reqs[r].user,
                   chatId |-> chatIdCounter]]
            /\ UNCHANGED resp
  /\ UNCHANGED <<userVars, memberVars, messageVars, statusVars, storeB, loaded, wsVars, now>>

CreateChatAddCreator(r) ==
  /\ reqs[r].op = "createChat" /\ reqs[r].pc = "createChat"
  /\ addChatMember(reqs[r].chatId, reqs[r].user, TRUE)
  /\ Finish(r, [op |-> "createChat", status |-> 201])
  /\ UNCHANGED <<userVars, chatVars, messageVars, statusVars, storeB, loaded, wsVars, now>>

\* ---- POST /api/chats/:id/members ----
AddMemberStart(r, chatId, userId, isAdmin) ==
  /\ ~InFlight(r)
  /\ IF userId = None
       THEN Finish(r, [op |-> "addMember", status |-> 400, error |-> "userId is required"])
       ELSE /\ reqs' = [reqs EXCEPT ![r] =
                  [op |-> "addMember", pc |-> "getChat", chatId |-> chatId,
                   userId |-> userId, isAdmin |-> isAdmin,
                   chat |-> IF chatId \in DOMAIN chats
                              THEN chats[chatId].type ELSE "none"]]
            /\ UNCHANGED resp
  /\ UNCHANGED <<storeA, storeB, loaded, wsVars, now>>

AddMemberGotChat(r) ==
  /\ reqs[r].op = "addMember" /\ reqs[r].pc = "getChat"
  /\ IF reqs[r].chat = "none"
       THEN /\ Finish(r, [op |-> "addMember", status |-> 404, error |-> "Chat not found"])
            /\ UNCHANGED <<chatMembers, chatMemberIdCounter>>
       ELSE IF reqs[r].chat = "group"
       THEN \* getChatMembers filters the rows now; the handler sees them after the await
            /\ reqs' = [reqs EXCEPT ![r] =
                  [op |-> "addMember", pc |-> "getChatMembers", chatId |-> reqs[r].chatId,
                   userId |-> reqs[r].userId, isAdmin |-> reqs[r].isAdmin,
                   members |-> Cardinality(getChatMembers(reqs[r].chatId))]]
            /\ UNCHANGED <<chatMembers, chatMemberIdCounter, resp>>
       ELSE /\ addChatMember(reqs[r].chatId, reqs[r].userId, reqs[r].isAdmin)
            /\ Finish(r, [op |-> "addMember", status |-> 201, error |-> ""])
  /\ UNCHANGED <<userVars, chatVars, messageVars, statusVars, storeB, loaded, wsVars, now>>

AddMemberGotMembers(r) ==
  /\ reqs[r].op = "addMember" /\ reqs[r].pc = "getChatMembers"
  /\ IF GroupIsFull(reqs[r].members)
       THEN /\ Finish(r, [op |-> "addMember", status |-> 400, error |-> "maximum number of members"])
            /\ UNCHANGED <<chatMembers, chatMemberIdCounter>>
       ELSE /\ addChatMember(reqs[r].chatId, reqs[r].userId, reqs[r].isAdmin)
            /\ Finish(r, [op |-> "addMember", status |-> 201, error |-> ""])
  /\ UNCHANGED <<userVars, chatVars, messageVars, statusVars, storeB, loaded, wsVars, now>>

\* ---- POST /api/messages ----
\* createMessage (part_000): a new message under the next id, stamped with the
\* clock, read by nobody.
createMessage(chatId, senderId, content) ==
  /\ messageIdCounter <= MaxMessages
  /\ messages' = MapSet(messages, messageIdCounter,
                        [chatId |-> chatId, senderId |-> senderId, content |-> content,
                         timestamp |-> now, readBy |-> << >>])
  /\ messageIdCounter' = messageIdCounter + 1

\* updateChatLastMessage: sets the two fields if the chat exists, else nothing.
updateChatLastMessage(chatId, message, timestamp) ==
  IF chatId \in DOMAIN chats
    THEN chats' = [chats EXCEPT ![chatId].lastMessage = message,
                                ![chatId].lastMessageTime = timestamp]
    ELSE chats' = chats

SendMessageStart(r, uid, chatId, content) ==
  /\ ~InFlight(r)
  /\ reqs' = [reqs EXCEPT ![r] =
        [op |-> "sendMessage", pc |-> "getUser", chatId |-> chatId, content |-> content,
         user |-> getUserByFirebaseUid(uid)]]
  /\ UNCHANGED <<storeA, storeB, loaded, wsVars, now, resp>>

SendMessageGotUser(r) ==
  /\ reqs[r].op = "sendMessage" /\ reqs[r].pc = "getUser"
  /\ IF reqs[r].user = None
       THEN /\ Finish(r, [op |-> "sendMessage", status |-> 404])
            /\ UNCHANGED messageVars
       ELSE IF reqs[r].content = "missing"
       THEN \* insertMessageSchema.parse throws: content is required
            /\ Finish(r, [op |-> "sendMessage", status |-> 400])
            /\ UNCHANGED messageVars
       ELSE /\ createMessage(reqs[r].chatId, reqs[r].user, reqs[r].content)
            /\ reqs' = [reqs EXCEPT ![r] =
                  [op |-> "sendMessage", pc |-> "createMessage", chatId |-> reqs[r].chatId,
                   content |-> reqs[r].content, user |-> reqs[r].user,
                   message |-> messageIdCounter]]
            /\ UNCHANGED resp
  /\ UNCHANGED <<userVars, chatVars, memberVars, statusVars, storeB, loaded, wsVars, now>>

SendMessageCreated(r) ==
  /\ reqs[r].op = "sendMessage" /\ reqs[r].pc = "createMessage"
  /\ updateChatLastMessage(reqs[r].chatId, reqs[r].content, now)
  /\ reqs' = [reqs EXCEPT ![r].pc = "updateChatLastMessage"]
  /\ UNCHANGED <<userVars, chatIdCounter, memberVars, messageVars, statusVars, storeB, loaded, wsVars, now, resp>>

\* ---- the WebSocket server ----
\* A registry in which the first connection of a user stays.
Register_KeepFirst(registry, userId, ws) ==
  IF userId \in DOMAIN registry THEN registry ELSE MapSet(registry, userId, ws)
\* clients.set(userId, ws)
Register(registry, userId, ws) == MapSet(registry, userId, ws)

\* wss.on('connection'): a new socket, open, its handler's userId null.
WsConnection(c) ==
  /\ sockets[c].readyState = "NONE"
  /\ \A d \in Conns : d < c => sockets[d].readyState # "NONE"
  /\ sockets' = [sockets EXCEPT ![c] = [readyState |-> "OPEN", userId |-> None]]
  /\ UNCHANGED <<storeA, storeB, loaded, clients, now, reqs, resp>>

\* ws.on('message'): an auth message that names a user registers the socket
\* under that name; any other message changes nothing.
WsMessage(c, type, userId) ==
  /\ sockets[c].readyState = "OPEN"
  /\ IF type = "auth" /\ userId # None
       THEN /\ sockets' = [sockets EXCEPT ![c].userId = userId]
            /\ clients' = Register(clients, userId, c)
            /\ resp' = [op |-> "ws.auth", status |-> 0, conn |-> c, userId |-> userId]
       ELSE UNCHANGED <<sockets, clients, resp>>
  /\ UNCHANGED <<storeA, storeB, loaded, now, reqs>>

\* The socket starts its closing handshake; no handler of the server runs.
WsClosing(c) ==
  /\ sockets[c].readyState = "OPEN"
  /\ sockets' = [sockets EXCEPT ![c].readyState = "CLOSING"]
  /\ UNCHANGED <<storeA, storeB, loaded, clients, now, reqs, resp>>

\* ws.on('close'): the socket is closed; the entry under the handler's userId
\* is deleted.
WsClose(c) ==
  /\ sockets[c].readyState = "CLOSING"
  /\ sockets' = [sockets EXCEPT ![c].readyState = "CLOSED"]
  /\ clients' = IF sockets[c].userId # None THEN MapDelete(clients, sockets[c].userId)
                                            ELSE clients
  /\ UNCHANGED <<storeA, storeB, loaded, now, reqs, resp>>

\* The elements of a set of numbers in increasing order (a Map yields its
\* entries in insertion order, which is id order).
Sorted(S) == [i \in 1..Cardinality(S) |-> CHOOSE x \in S : Cardinality({y \in S : y < x}) = i - 1]

\* What getChatMembers resolves to, fixed when it is called: the rows of the
\* chat, each with the firebaseUid of its user row (None if there is no row).
MembersWithUsers(chatId) ==
  LET rows == Sorted(getChatMembers(chatId))
  IN [i \in DOMAIN rows |->
        [userId |-> chatMembers[rows[i]].userId,
         firebaseUid |-> IF chatMembers[rows[i]].userId \in DOMAIN users
                           THEN users[chatMembers[rows[i]].userId].firebaseUid
                           ELSE None]]

SendMessageUpdated(r) ==
  /\ reqs[r].op = "sendMessage" /\ reqs[r].pc = "updateChatLastMessage"
  /\ reqs' = [reqs EXCEPT ![r] =
        [op |-> "sendMessage", pc |-> "getChatMembers", chatId |-> reqs[r].chatId,
         content |-> reqs[r].content, user |-> reqs[r].user, message |-> reqs[r].message,
         members |-> MembersWithUsers(reqs[r].chatId)]]
  /\ UNCHANGED <<storeA, storeB, loaded, wsVars, now, resp>>

\* A readiness test that takes every socket for open.
IsOpen_Always(ws) == TRUE
\* ws.readyState === WebSocket.OPEN
IsOpen(ws) == sockets[ws].readyState = "OPEN"
\* A recipient test that lets the sender through.
IsRecipient_Everyone(member, senderId) == TRUE
\* member.userId !== user.id
IsRecipient(member, senderId) == member.userId # senderId

\* The sockets the loop calls send on, in the order of the member list.
Targets(members, senderId) ==
  LET passes(m) == /\ m.firebaseUid \in DOMAIN clients
                   /\ IsOpen(clients[m.firebaseUid])
                   /\ IsRecipient(m, senderId)
      chosen == SelectSeq(members, passes)
  IN [i \in DOMAIN chosen |-> clients[chosen[i].firebaseUid]]

\* The loop and the response.  A send that throws leaves the forEach and the
\* try block: the catch answers 500.  k = 0: no send throws; k > 0: the k-th
\* send throws.
SendMessageNotified(r) ==
  /\ reqs[r].op = "sendMessage" /\ reqs[r].pc = "getChatMembers"
  /\ LET targets == Targets(reqs[r].members, reqs[r].user)
     IN \E k \in 0..Len(targets) :
          Finish(r, [op |-> "sendMessage",
                     status |-> IF k = 0 THEN 201 ELSE 500,
                     message |-> reqs[r].message,
                     attempted |-> IF k = 0 THEN targets ELSE SubSeq(targets, 1, k),
                     delivered |-> IF k = 0 THEN targets ELSE SubSeq(targets, 1, k - 1)])
  /\ UNCHANGED <<storeA, storeB, loaded, wsVars, now>>

\* ---- POST /api/statuses ----
\* The expiry the handler computes: 24 hours after its own clock reading.
ServerExpiry == now + STATUS_EXPIRY_HOURS

\* A payload in which an expiry of the request body survives.
StatusExpiry_BodyWins(bodyExpiresAt, serverExpiresAt) ==
  IF bodyExpiresAt # None THEN bodyExpiresAt ELSE serverExpiresAt

\* The expiresAt of { ...req.body, userId, expiresAt }: the key written last
\* wins, so the body's own expiresAt is overwritten.
StatusExpiry(bodyExpiresAt, serverExpiresAt) == serverExpiresAt

\* createStatus (part_000): a new status under the next id, stamped with the
\* clock, with the expiry it is given, viewed by nobody.
createStatus(userId, content, expiresAt) ==
  /\ statusIdCounter <= MaxStatuses
  /\ statuses' = MapSet(statuses, statusIdCounter,
                        [userId |-> userId, content |-> content, timestamp |-> now,
                         expiresAt |-> expiresAt, viewedBy |-> << >>])
  /\ statusIdCounter' = statusIdCounter + 1

CreateStatusStart(r, uid, content, bodyExpiresAt) ==
  /\ ~InFlight(r)
  /\ reqs' = [reqs EXCEPT ![r] =
        [op |-> "createStatus", pc |-> "getUser", content |-> content,
         bodyExpiresAt |-> bodyExpiresAt, user |-> getUserByFirebaseUid(uid)]]
  /\ UNCHANGED <<storeA, storeB, loaded, wsVars, now, resp>>

CreateStatusGotUser(r) ==
  /\ reqs[r].op = "createStatus" /\ reqs[r].pc = "getUser"
  /\ IF reqs[r].user = None
       THEN /\ Finish(r, [op |-> "createStatus", status |-> 404])
            /\ UNCHANGED statusVars
       ELSE IF reqs[r].content = "missing"
       THEN \* insertStatusSchema.parse throws: content is required
            /\ Finish(r, [op |-> "createStatus", status |-> 400])
            /\ UNCHANGED statusVars
       ELSE /\ createStatus(reqs[r].user, reqs[r].content,
                            StatusExpiry(reqs[r].bodyExpiresAt, ServerExpiry))
            /\ Finish(r, [op |-> "createStatus", status |-> 201, id |-> statusIdCounter,
                          bodyExpiresAt |-> reqs[r].bodyExpiresAt])
  /\ UNCHANGED <<userVars, chatVars, memberVars, messageVars, storeB, loaded, wsVars, now>>

\* ---- POST /api/statuses/:id/view ----
\* A membership test that never finds the element.
Includes_Never(list, x) == FALSE
\* A membership test that looks at the first element only.
Includes_FirstOnly(list, x) == Len(list) > 0 /\ list[1] = x

\* Array.prototype.includes
Includes(list, x) == \E i \in 1..Len(list) : list[i] = x

\* viewStatus (part_000): appends the user to viewedBy unless the status is
\* missing or already lists the user.
viewStatus(statusId, userId) ==
  IF statusId \in DOMAIN statuses /\ ~Includes(statuses[statusId].viewedBy, userId)
    THEN statuses' = [statuses EXCEPT ![statusId].viewedBy = Append(@, userId)]
    ELSE statuses' = statuses

ViewStatusStart(r, uid, statusId) ==
  /\ ~InFlight(r)
  /\ reqs' = [reqs EXCEPT ![r] =
        [op |-> "viewStatus", pc |-> "getUser", statusId |-> statusId,
         user |-> getUserByFirebaseUid(uid)]]
  /\ UNCHANGED <<storeA, storeB, loaded, wsVars, now, resp>>

ViewStatusGotUser(r) ==
  /\ reqs[r].op = "viewStatus" /\ reqs[r].pc = "getUser"
  /\ IF reqs[r].user = None
       THEN /\ Finish(r, [op |-> "viewStatus", status |-> 404])
            /\ UNCHANGED statuses
       ELSE /\ viewStatus(reqs[r].statusId, reqs[r].user)
            /\ Finish(r, [op |-> "viewStatus", status |-> 200])
  /\ UNCHANGED <<userVars, chatVars, memberVars, messageVars, statusIdCounter, storeB, loaded, wsVars, now>>

\* ---- GET /api/statuses ----
\* getStatuses (part_000): the statuses whose expiry is later than the clock
\* reading taken when the call is made.
getStatuses == {s \in DOMAIN statuses : statuses[s].expiresAt > now}
\* getUserStatuses (part_000): the same test, on the statuses of one user.
getUserStatuses(userId) ==
  {s \in DOMAIN statuses : statuses[s].userId = userId /\ statuses[s].expiresAt > now}

\* The handler up to the await inside getStatuses: the filter has run.
GetStatusesStart(r) ==
  /\ ~InFlight(r)
  /\ reqs' = [reqs EXCEPT ![r] =
        [op |-> "getStatuses", pc |-> "getStatuses", result |-> getStatuses, at |-> now]]
  /\ UNCHANGED <<storeA, storeB, loaded, wsVars, now, resp>>

GetStatusesDone(r) ==
  /\ reqs[r].op = "getStatuses" /\ reqs[r].pc = "getStatuses"
  /\ Finish(r, [op |-> "getStatuses", status |-> 200, result |-> reqs[r].result,
                userId |-> None])
  /\ UNCHANGED <<storeA, storeB, loaded, wsVars, now>>

\* A getUserStatuses call: it reaches no await.
GetUserStatusesCall(userId) ==
  /\ resp' = [op |-> "getUserStatuses", status |-> 200, result |-> getUserStatuses(userId),
              userId |-> userId]
  /\ UNCHANGED <<storeA, storeB, loaded, wsVars, now, reqs>>

\* ---- the clock ----
Tick ==
  /\ now < MaxTime
  /\ now' = now + 1
  /\ UNCHANGED <<storeA, storeB, loaded, wsVars, reqs, resp>>

\* Time passing in the feed specification: an hour, or all but one hour of an
\* expiry period.
Elapse(h) ==
  /\ now + h <= MaxFeedTime
  /\ now' = now + h
  /\ UNCHANGED <<storeA, storeB, loaded, wsVars, reqs, resp>>

(***************************************************************************)
(* The conversation-keyed store (part_001).  Its callers are not part of   *)
(* the sources, so a call enters at the method.  A call in flight occupies *)
(* a slot like a request does; resp is the outcome of the last call that   *)
(* settled: it returned (via names the return statement) or it threw.      *)
(***************************************************************************)
NoEntity == [id |-> None]

Returned(op, via) == [op |-> op, status |-> 0, outcome |-> "returned", via |-> via]
Threw(op) == [op |-> op, status |-> 0, outcome |-> "threw", via |-> "throw"]

\* map.get(k) || []
GetOrEmpty(m, k) == IF k \in DOMAIN m THEN m[k] ELSE << >>
\* A list left as it was.
ReplaceById_Stale(list, entity) == list

\* list.map(e => e.id === entity.id ? entity : e)
ReplaceById(list, entity) ==
  [i \in DOMAIN list |-> IF list[i].id = entity.id THEN entity ELSE list[i]]

\* ---- createUser ----
\* getUserByUid: the entry of the uid index, or undefined.
getUserByUid(uid) == IF uid \in DOMAIN usersByUid THEN usersByUid[uid] ELSE NoEntity

\* createUser up to its await: the uid index is read.
ConvCreateUserStart(r, uid) ==
  /\ ~InFlight(r)
  /\ reqs' = [reqs EXCEPT ![r] =
        [op |-> "store.createUser", pc |-> "getUserByUid", uid |-> uid,
         existingUser |-> getUserByUid(uid)]]
  /\ UNCHANGED <<storeA, storeB, loaded, wsVars, now, resp>>

\* After the await: the user it read is returned, or a new user is stored
\* under the next id and indexed under its uid.
ConvCreateUserGotUser(r) ==
  /\ reqs[r].op = "store.createUser" /\ reqs[r].pc = "getUserByUid"
  /\ IF reqs[r].existingUser # NoEntity
       THEN /\ Finish(r, [op |-> "store.createUser", status |-> 0,
                          outcome |-> "returned", via |-> "existingUser",
                          uid |-> reqs[r].uid, user |-> reqs[r].existingUser.id])
            /\ UNCHANGED csUserVars
       ELSE /\ csUserId <= MaxUserRows
            /\ LET user == [id |-> csUserId, uid |-> reqs[r].uid]
               IN /\ csUsers' = MapSet(csUsers, csUserId, user)
                  /\ usersByUid' = MapSet(usersByUid, reqs[r].uid, user)
            /\ csUserId' = csUserId + 1
            /\ Finish(r, [op |-> "store.createUser", status |-> 0,
                          outcome |-> "returned", via |-> "end",
                          uid |-> reqs[r].uid, user |-> csUserId])
  /\ UNCHANGED <<storeA, conversationVars, csMessageVars, csStatusVars, loaded, wsVars, now>>

\* getConversation / getMessage / getStatus: the entry, or undefined.
getConversation(id) == IF id \in DOMAIN conversations THEN conversations[id] ELSE NoEntity
getMessage(id) == IF id \in DOMAIN csMessages THEN csMessages[id] ELSE NoEntity
getStatus(id) == IF id \in DOMAIN csStatuses THEN csStatuses[id] ELSE NoEntity

\* createConversation(data, []): with no member to add the loop body never
\* runs and the call settles without reaching an await.
CreateEmptyConversation(createdBy) ==
  /\ csConversationId <= MaxConversations
  /\ conversations' = MapSet(conversations, csConversationId,
        [id |-> csConversationId, createdBy |-> createdBy, memberCount |-> 0,
         lastMessage |-> NoText, lastMessageAt |-> None])
  /\ conversationMembers' = MapSet(conversationMembers, csConversationId, << >>)
  /\ csConversationId' = csConversationId + 1
  /\ resp' = Returned("store.createConversation", "end")
  /\ UNCHANGED <<storeA, conversationMemberId, csMessageVars, csStatusVars, csUserVars, loaded, wsVars, now, reqs>>

\* members.push(member) of addMemberToConversation: the conversation's list
\* with a new row under the next membership id.
PushMember(cm, conversationId, userId, isAdmin) ==
  MapSet(cm, conversationId,
         Append(GetOrEmpty(cm, conversationId),
                [id |-> conversationMemberId, userId |-> userId, isAdmin |-> isAdmin]))

\* memberCount: members.length, the length of the conversation's list.
CountedMembers_OneMore(conversation, list) == conversation.memberCount + 1
CountedMembers(conversation, list) == Len(list)

\* createConversation up to its first await: the conversation is stored with
\* memberCount = memberIds.length and an empty member list; with no member
\* to add the call settles here, else addMemberToConversation is entered for
\* the first one: its row is pushed and getConversation is called.
ConvCreateConversationStart(r, createdBy, isGroup, name, memberIds) ==
  /\ ~InFlight(r)
  /\ csConversationId <= MaxConversations
  /\ LET id == csConversationId
         conversation == [id |-> id, createdBy |-> createdBy, isGroup |-> isGroup,
                          name |-> name, memberCount |-> Len(memberIds),
                          lastMessage |-> NoText, lastMessageAt |-> None]
         empty == MapSet(conversationMembers, id, << >>)
         todo == memberIds
     IN /\ conversations' = MapSet(conversations, id, conversation)
        /\ csConversationId' = id + 1
        /\ IF todo = << >>
             THEN /\ conversationMembers' = empty
                  /\ resp' = Returned("store.createConversation", "end")
                  /\ UNCHANGED <<conversationMemberId, reqs>>
             ELSE /\ conversationMembers' =
                        PushMember(empty, id, Head(todo), Head(todo) = createdBy)
                  /\ conversationMemberId' = conversationMemberId + 1
                  /\ reqs' = [reqs EXCEPT ![r] =
                        [op |-> "store.createConversation", pc |-> "getConversation",
                         id |-> id, createdBy |-> createdBy, rest |-> Tail(todo),
                         conversation |-> conversation]]
                  /\ UNCHANGED resp
  /\ UNCHANGED <<storeA, csMessageVars, csStatusVars, csUserVars, loaded, wsVars, now>>

\* addMemberToConversation after its await: the conversation it read exists,
\* so updateConversation is called with memberCount = members.length; that
\* call reads the conversation again and awaits.
ConvCreateConversationGotConversation(r) ==
  /\ reqs[r].op = "store.createConversation" /\ reqs[r].pc = "getConversation"
  /\ reqs' = [reqs EXCEPT ![r] =
        [@ EXCEPT !.pc = "updateConversation",
                  !.conversation = getConversation(reqs[r].id)]]
  /\ UNCHANGED <<storeA, storeB, loaded, wsVars, now, resp>>

\* updateConversation after its await: stores the conversation it read with
\* the member count replaced, or throws if there was none.
ConvCreateConversationUpdated(r) ==
  /\ reqs[r].op = "store.createConversation" /\ reqs[r].pc = "updateConversation"
  /\ IF reqs[r].conversation = NoEntity
       THEN /\ Finish(r, Threw("store.createConversation"))
            /\ UNCHANGED conversations
       ELSE /\ conversations' = MapSet(conversations, reqs[r].id,
                  [reqs[r].conversation EXCEPT
                     !.memberCount = CountedMembers(reqs[r].conversation,
                         GetOrEmpty(conversationMembers, reqs[r].id))])
            /\ reqs' = [reqs EXCEPT ![r] = [@ EXCEPT !.pc = "loop"]]
            /\ UNCHANGED resp
  /\ UNCHANGED <<storeA, conversationMembers, csConversationId, conversationMemberId,
                 csMessageVars, csStatusVars, csUserVars, loaded, wsVars, now>>

\* The loop of createConversation after addMemberToConversation returned:
\* the next member is entered, or the conversation is returned.
ConvCreateConversationLoop(r) ==
  /\ reqs[r].op = "store.createConversation" /\ reqs[r].pc = "loop"
  /\ IF reqs[r].rest = << >>
       THEN /\ Finish(r, Returned("store.createConversation", "end"))
            /\ UNCHANGED <<conversationMembers, conversationMemberId>>
       ELSE /\ conversationMembers' =
                  PushMember(conversationMembers, reqs[r].id, Head(reqs[r].rest),
                             Head(reqs[r].rest) = reqs[r].createdBy)
            /\ conversationMemberId' = conversationMemberId + 1
            /\ reqs' = [reqs EXCEPT ![r] =
                  [@ EXCEPT !.pc = "getConversation", !.rest = Tail(@),
                            !.conversation = getConversation(reqs[r].id)]]
            /\ UNCHANGED resp
  /\ UNCHANGED <<storeA, conversations, csConversationId, csMessageVars,
                 csStatusVars, csUserVars, loaded, wsVars, now>>

\* ---- addMemberToConversation, called on its own ----
\* Up to its await: the row is pushed under the next membership id, whether
\* or not the conversation exists, and getConversation is called.
ConvAddMemberStart(r, conversationId, userId, isAdmin) ==
  /\ ~InFlight(r)
  /\ conversationMemberId <= MaxMemberRows
  /\ conversationMembers' = PushMember(conversationMembers, conversationId, userId, isAdmin)
  /\ conversationMemberId' = conversationMemberId + 1
  /\ reqs' = [reqs EXCEPT ![r] =
        [op |-> "store.addMemberToConversation", pc |-> "getConversation",
         id |-> conversationId, row |-> conversationMemberId,
         conversation |-> getConversation(conversationId)]]
  /\ UNCHANGED <<storeA, conversations, csConversationId, csMessageVars, csStatusVars,
                 csUserVars, loaded, wsVars, now, resp>>

\* After the await: without a conversation the row is returned as it is;
\* else updateConversation is called with memberCount = members.length and
\* reads the conversation again.
ConvAddMemberGotConversation(r) ==
  /\ reqs[r].op = "store.addMemberToConversation" /\ reqs[r].pc = "getConversation"
  /\ IF reqs[r].conversation = NoEntity
       THEN Finish(r, Returned("store.addMemberToConversation", "end"))
       ELSE /\ reqs' = [reqs EXCEPT ![r] =
                  [@ EXCEPT !.pc = "updateConversation",
                            !.conversation = getConversation(reqs[r].id)]]
            /\ UNCHANGED resp
  /\ UNCHANGED <<storeA, storeB, loaded, wsVars, now>>

\* updateConversation after its await, for a member count.
updateMemberCount(r) ==
  conversations' = MapSet(conversations, reqs[r].id,
      [reqs[r].conversation EXCEPT
         !.memberCount = CountedMembers(reqs[r].conversation,
                                        GetOrEmpty(conversationMembers, reqs[r].id))])

ConvAddMemberUpdated(r) ==
  /\ reqs[r].op = "store.addMemberToConversation" /\ reqs[r].pc = "updateConversation"
  /\ IF reqs[r].conversation = NoEntity
       THEN /\ Finish(r, Threw("store.addMemberToConversation"))
            /\ UNCHANGED conversations
       ELSE /\ updateMemberCount(r)
            /\ Finish(r, Returned("store.addMemberToConversation", "end"))
  /\ UNCHANGED <<storeA, conversationMembers, csConversationId, conversationMemberId,
                 csMessageVars, csStatusVars, csUserVars, loaded, wsVars, now>>

\* ---- removeMemberFromConversation ----
\* members.filter(member => member.userId !== userId)
WithoutUser(list, userId) == SelectSeq(list, LAMBDA m : m.userId # userId)

\* Up to its await: the filtered list is stored and getConversation is called.
ConvRemoveMemberStart(r, conversationId, userId) ==
  /\ ~InFlight(r)
  /\ conversationMembers' =
        MapSet(conversationMembers, conversationId,
               WithoutUser(GetOrEmpty(conversationMembers, conversationId), userId))
  /\ reqs' = [reqs EXCEPT ![r] =
        [op |-> "store.removeMemberFromConversation", pc |-> "getConversation",
         id |-> conversationId, userId |-> userId,
         conversation |-> getConversation(conversationId)]]
  /\ UNCHANGED <<storeA, conversations, csConversationId, conversationMemberId,
                 csMessageVars, csStatusVars, csUserVars, loaded, wsVars, now, resp>>

ConvRemoveMemberGotConversation(r) ==
  /\ reqs[r].op = "store.removeMemberFromConversation" /\ reqs[r].pc = "getConversation"
  /\ IF reqs[r].conversation = NoEntity
       THEN Finish(r, Returned("store.removeMemberFromConversation", "end"))
       ELSE /\ reqs' = [reqs EXCEPT ![r] =
                  [@ EXCEPT !.pc = "updateConversation",
                            !.conversation = getConversation(reqs[r].id)]]
            /\ UNCHANGED resp
  /\ UNCHANGED <<storeA, storeB, loaded, wsVars, now>>

ConvRemoveMemberUpdated(r) ==
  /\ reqs[r].op = "store.removeMemberFromConversation" /\ reqs[r].pc = "updateConversation"
  /\ IF reqs[r].conversation = NoEntity
       THEN /\ Finish(r, Threw("store.removeMemberFromConversation"))
            /\ UNCHANGED conversations
       ELSE /\ updateMemberCount(r)
            /\ Finish(r, Returned("store.removeMemberFromConversation", "end"))
  /\ UNCHANGED <<storeA, conversationMembers, csConversationId, conversationMemberId,
                 csMessageVars, csStatusVars, csUserVars, loaded, wsVars, now>>

\* message.text || "Image"
TextOrImage(text) == IF text = "" THEN "Image" ELSE text
\* messageData.senderId ? [messageData.senderId] : []
InitialReadBy(senderId) == IF senderId # None THEN <<senderId>> ELSE << >>

\* createMessage up to its await: the message is stored and listed, then
\* updateConversation is called, which calls getConversation.
ConvCreateMessageStart(r, conversationId, senderId, text) ==
  /\ ~InFlight(r)
  /\ csMessageId <= MaxMessages
  /\ LET message == [id |-> csMessageId, conversationId |-> conversationId,
                     senderId |-> senderId, text |-> text, createdAt |-> now,
                     readBy |-> InitialReadBy(senderId)]
     IN /\ csMessages' = MapSet(csMessages, csMessageId, message)
        /\ messagesByConversation' =
              MapSet(messagesByConversation, conversationId,
                     Append(GetOrEmpty(messagesByConversation, conversationId), message))
        /\ csMessageId' = csMessageId + 1
        /\ reqs' = [reqs EXCEPT ![r] =
              [op |-> "store.createMessage", pc |-> "getConversation",
               message |-> message, conversation |-> getConversation(conversationId)]]
  /\ UNCHANGED <<storeA, conversationVars, csStatusVars, csUserVars, loaded, wsVars, now, resp>>

\* updateConversation after its await: throws if the conversation was
\* missing, else stores the conversation it read with the two fields replaced.
ConvCreateMessageUpdate(r) ==
  /\ reqs[r].op = "store.createMessage" /\ reqs[r].pc = "getConversation"
  /\ IF reqs[r].conversation = NoEntity
       THEN /\ Finish(r, Threw("store.createMessage"))
            /\ UNCHANGED conversations
       ELSE /\ conversations' = MapSet(conversations, reqs[r].conversation.id,
                  [reqs[r].conversation EXCEPT
                     !.lastMessage = TextOrImage(reqs[r].message.text),
                     !.lastMessageAt = reqs[r].message.createdAt])
            /\ Finish(r, Returned("store.createMessage", "end"))
  /\ UNCHANGED <<storeA, conversationMembers, csConversationId, conversationMemberId, csMessageVars,
                 csStatusVars, csUserVars, loaded, wsVars, now>>

\* markMessageAsRead after its await, on the message it read: throws, returns
\* early, or stores the message it read with the user appended to readBy.
markMessageAsReadResume(message, userId) ==
  IF message = NoEntity \/ Includes(message.readBy, userId)
    THEN UNCHANGED <<csMessages, messagesByConversation>>
    ELSE LET updatedMessage == [message EXCEPT !.readBy = Append(@, userId)]
         IN /\ csMessages' = MapSet(csMessages, message.id, updatedMessage)
            /\ messagesByConversation' =
                  MapSet(messagesByConversation, message.conversationId,
                         ReplaceById(GetOrEmpty(messagesByConversation,
                                                message.conversationId),
                                     updatedMessage))

ConvMarkMessageAsReadStart(r, messageId, userId) ==
  /\ ~InFlight(r)
  /\ reqs' = [reqs EXCEPT ![r] =
        [op |-> "store.markMessageAsRead", pc |-> "getMessage", userId |-> userId,
         message |-> getMessage(messageId)]]
  /\ UNCHANGED <<storeA, storeB, loaded, wsVars, now, resp>>

ConvMarkMessageAsReadGotMessage(r) ==
  /\ reqs[r].op = "store.markMessageAsRead" /\ reqs[r].pc = "getMessage"
  /\ markMessageAsReadResume(reqs[r].message, reqs[r].userId)
  /\ Finish(r, IF reqs[r].message = NoEntity
                 THEN Threw("store.markMessageAsRead")
                 ELSE IF Includes(reqs[r].message.readBy, reqs[r].userId)
                 THEN Returned("store.markMessageAsRead", "already read")
                 ELSE Returned("store.markMessageAsRead", "end"))
  /\ UNCHANGED <<storeA, conversationVars, csMessageId,
                 csStatusVars, csUserVars, loaded, wsVars, now>>

\* markConversationAsRead up to its first await: getConversationMessages
\* hands over the conversation's list; the loop walks the ids in it.
ConvMarkConversationAsReadStart(r, conversationId, userId) ==
  /\ ~InFlight(r)
  /\ LET list == GetOrEmpty(messagesByConversation, conversationId)
     IN reqs' = [reqs EXCEPT ![r] =
          [op |-> "store.markConversationAsRead", pc |-> "loop", userId |-> userId,
           todo |-> [i \in DOMAIN list |-> list[i].id], message |-> NoEntity]]
  /\ UNCHANGED <<storeA, storeB, loaded, wsVars, now, resp>>

\* The loop head: returns when the list is exhausted, else calls
\* markMessageAsRead for the next id, which calls getMessage.
ConvMarkConversationAsReadLoop(r) ==
  /\ reqs[r].op = "store.markConversationAsRead" /\ reqs[r].pc = "loop"
  /\ IF reqs[r].todo = << >>
       THEN Finish(r, Returned("store.markConversationAsRead", "end"))
       ELSE /\ reqs' = [reqs EXCEPT ![r].pc = "getMessage",
                                    ![r].message = getMessage(Head(reqs[r].todo)),
                                    ![r].todo = Tail(reqs[r].todo)]
            /\ UNCHANGED resp
  /\ UNCHANGED <<storeA, storeB, loaded, wsVars, now>>

\* The inner markMessageAsRead after its await; its throw ends the loop.
ConvMarkConversationAsReadGotMessage(r) ==
  /\ reqs[r].op = "store.markConversationAsRead" /\ reqs[r].pc = "getMessage"
  /\ markMessageAsReadResume(reqs[r].message, reqs[r].userId)
  /\ IF reqs[r].message = NoEntity
       THEN Finish(r, Threw("store.markConversationAsRead"))
       ELSE /\ reqs' = [reqs EXCEPT ![r].pc = "loop", ![r].message = NoEntity]
            /\ UNCHANGED resp
  /\ UNCHANGED <<storeA, conversationVars, csMessageId, csStatusVars, csUserVars, loaded, wsVars, now>>

\* createStatus (part_001): no await; the status starts with no views.
ConvCreateStatus(userId, expiresAt) ==
  /\ csStatusId <= MaxStatuses
  /\ LET status == [id |-> csStatusId, userId |-> userId, createdAt |-> now,
                    expiresAt |-> expiresAt, viewCount |-> 0, viewedBy |-> << >>]
     IN /\ csStatuses' = MapSet(csStatuses, csStatusId, status)
        /\ statusesByUser' = MapSet(statusesByUser, userId,
                                    Append(GetOrEmpty(statusesByUser, userId), status))
  /\ csStatusId' = csStatusId + 1
  /\ resp' = Returned("store.createStatus", "end")
  /\ UNCHANGED <<storeA, conversationVars, csMessageVars, statusViews, csStatusViewId,
                 csUserVars, loaded, wsVars, now, reqs>>

ConvViewStatusStart(r, statusId, viewerId) ==
  /\ ~InFlight(r)
  /\ reqs' = [reqs EXCEPT ![r] =
        [op |-> "store.viewStatus", pc |-> "getStatus", statusId |-> statusId,
         viewerId |-> viewerId, status |-> getStatus(statusId)]]
  /\ UNCHANGED <<storeA, storeB, loaded, wsVars, now, resp>>

\* viewStatus after its await, on the status it read: throws, returns early,
\* or records a StatusView and stores the status it read with the count raised
\* and the viewer appended.
ConvViewStatusGotStatus(r) ==
  /\ reqs[r].op = "store.viewStatus" /\ reqs[r].pc = "getStatus"
  /\ LET status == reqs[r].status
         statusId == reqs[r].statusId
         viewerId == reqs[r].viewerId
     IN IF status = NoEntity
          THEN /\ Finish(r, Threw("store.viewStatus"))
               /\ UNCHANGED csStatusVars
          ELSE IF Includes(status.viewedBy, viewerId)
          THEN /\ Finish(r, Returned("store.viewStatus", "already viewed"))
               /\ UNCHANGED csStatusVars
          ELSE /\ csStatusViewId <= MaxStatusViews
               /\ statusViews' = MapSet(statusViews, statusId,
                     Append(GetOrEmpty(statusViews, statusId),
                            [id |-> csStatusViewId, statusId |-> statusId,
                             viewerId |-> viewerId, viewedAt |-> now]))
               /\ csStatusViewId' = csStatusViewId + 1
               /\ LET updatedStatus == [status EXCEPT !.viewCount = @ + 1,
                                                      !.viewedBy = Append(@, viewerId)]
                  IN /\ csStatuses' = MapSet(csStatuses, statusId, updatedStatus)
                     /\ statusesByUser' = MapSet(statusesByUser, status.userId,
                           ReplaceById(GetOrEmpty(statusesByUser, status.userId),
                                       updatedStatus))
               /\ csStatusId' = csStatusId
               /\ Finish(r, Returned("store.viewStatus", "end"))
  /\ UNCHANGED <<storeA, conversationVars, csMessageVars, csUserVars, loaded, wsVars, now>>

\* getAllStatuses (part_001): every stored status; no await.
ConvGetAllStatuses ==
  /\ resp' = [op |-> "store.getAllStatuses", status |-> 200, result |-> DOMAIN csStatuses,
              userId |-> None]
  /\ UNCHANGED <<storeA, storeB, loaded, wsVars, now, reqs>>

\* getUserStatuses (part_001): the user's list, as it is; no await.
ConvGetUserStatuses(userId) ==
  /\ LET list == GetOrEmpty(statusesByUser, userId)
     IN resp' = [op |-> "store.getUserStatuses", status |-> 200,
                 result |-> {list[i].id : i \in DOMAIN list}, userId |-> userId]
  /\ UNCHANGED <<storeA, storeB, loaded, wsVars, now, reqs>>

(***************************************************************************)
(* Specifications of the membership operations.                            *)
(***************************************************************************)

MembersSetupStart(r) ==
  \/ \E uid \in Uids : AuthSessionStart(r, uid)
  \/ \E uid \in Uids, type \in ChatTypes \cup {"missing"} :
        CreateChatStart(r, uid, type, "team")

MembersAddStart(r) ==
  \E chatId \in ChatIds, userId \in UserIds \cup {None} :
        AddMemberStart(r, chatId, userId, FALSE)

MembersStep(r) ==
  \/ AuthSessionGotUser(r)
  \/ CreateChatGotUser(r)
  \/ CreateChatAddCreator(r)
  \/ AddMemberGotChat(r)
  \/ AddMemberGotMembers(r)

MembersRemove ==
  \E chatId \in ChatIds, userId \in UserIds : RemoveChatMember(chatId, userId)

\* Requests one at a time: a request starts only when none is in flight.
NextMembersSeq ==
  \/ NoneInFlight /\ MembersSetupStart(1)
  \/ NoneInFlight /\ MembersAddStart(1)
  \/ \E r \in Slots : MembersStep(r)
  \/ NoneInFlight /\ MembersRemove

\* Add-member requests overlap one another: an idle slot may take one at any
\* time.  Sign-in and create-chat requests run alone.
NextMembers ==
  \/ NoneInFlight /\ MembersSetupStart(1)
  \/ \E r \in Slots : FirstIdle(r) /\ ~SetupInFlight /\ MembersAddStart(r)
  \/ \E r \in Slots : MembersStep(r)

SpecMembers == InitNumeric /\ [][NextMembers]_vars
SpecMembersSeq == InitNumeric /\ [][NextMembersSeq]_vars

(***************************************************************************)
(* Specification of the message operations: sign-in and create-chat        *)
(* requests run alone, send-message requests overlap one another.          *)
(***************************************************************************)
MessageIds == 1..MaxMessages
StatusIds == 1..MaxStatuses

MessagesSetupStart(r) ==
  \/ \E uid \in Uids : AuthSessionStart(r, uid)
  \/ \E uid \in Uids : CreateChatStart(r, uid, "direct", "")

MessagesSendStart(r) ==
  \E uid \in Uids, chatId \in ChatIds, content \in Contents \cup {"missing"} :
      SendMessageStart(r, uid, chatId, content)

MessagesStep(r) ==
  \/ AuthSessionGotUser(r)
  \/ CreateChatGotUser(r)
  \/ CreateChatAddCreator(r)
  \/ SendMessageGotUser(r)
  \/ SendMessageCreated(r)
  \/ SendMessageUpdated(r)
  \/ SendMessageNotified(r)

NextMessages ==
  \/ NoneInFlight /\ MessagesSetupStart(1)
  \/ \E r \in Slots : FirstIdle(r) /\ ~SetupInFlight /\ MessagesSendStart(r)
  \/ \E r \in Slots : MessagesStep(r)
  \/ Tick

SpecMessages == InitNumeric /\ [][NextMessages]_vars

(***************************************************************************)
(* Specification of the status operations of the numeric-id store:         *)
(* sign-in requests run alone, create-status and view-status requests      *)
(* overlap one another.                                                    *)
(***************************************************************************)
StatusesSetupStart(r) ==
  \E uid \in Uids : AuthSessionStart(r, uid)

StatusesStart(r) ==
  \/ \E uid \in Uids, content \in {"a", "missing"}, e \in ClientExpiries :
        CreateStatusStart(r, uid, content, e)
  \/ \E uid \in Uids, statusId \in StatusIds : ViewStatusStart(r, uid, statusId)

StatusesStep(r) ==
  \/ AuthSessionGotUser(r)
  \/ CreateStatusGotUser(r)
  \/ ViewStatusGotUser(r)

NextStatuses ==
  \/ NoneInFlight /\ StatusesSetupStart(1)
  \/ \E r \in Slots : FirstIdle(r) /\ ~SetupInFlight /\ StatusesStart(r)
  \/ \E r \in Slots : StatusesStep(r)
  \/ Tick

SpecStatuses == InitNumeric /\ [][NextStatuses]_vars

(***************************************************************************)
(* Specifications of the conversation and message operations of the        *)
(* conversation-keyed store.  In SpecConvSeq every call settles before the *)
(* next one is made.  In SpecConv createMessage and markMessageAsRead      *)
(* calls overlap one another.                                              *)
(***************************************************************************)
Texts == {"a", ""}

ConvMessageStart(r) ==
  \/ \E c \in ConversationIds, s \in Uids \cup {None}, t \in Texts :
        ConvCreateMessageStart(r, c, s, t)
  \/ \E m \in MessageIds, u \in Uids : ConvMarkMessageAsReadStart(r, m, u)

ConvStatusStart(r) ==
  \E s \in StatusIds, v \in Uids : ConvViewStatusStart(r, s, v)

ConvMessageStep(r) ==
  \/ ConvCreateMessageUpdate(r)
  \/ ConvMarkMessageAsReadGotMessage(r)

ConvLoopStep(r) ==
  \/ ConvMarkConversationAsReadLoop(r)
  \/ ConvMarkConversationAsReadGotMessage(r)

NextConvSeq ==
  \/ NoneInFlight /\ \E u \in Uids : CreateEmptyConversation(u)
  \/ NoneInFlight /\ ConvMessageStart(1)
  \/ NoneInFlight /\ \E c \in ConversationIds, u \in Uids :
        ConvMarkConversationAsReadStart(1, c, u)
  \/ ConvMessageStep(1)
  \/ ConvLoopStep(1)
  \/ Tick

NextConv ==
  \/ NoneInFlight /\ \E u \in Uids : CreateEmptyConversation(u)
  \/ \E r \in Slots : FirstIdle(r) /\ ConvMessageStart(r)
  \/ \E r \in Slots : ConvMessageStep(r)
  \/ Tick

SpecConvSeq == InitConversation /\ [][NextConvSeq]_vars
SpecConv == InitConversation /\ [][NextConv]_vars

(***************************************************************************)
(* Specification of the status operations of either store, every request   *)
(* or call settling before the next one is made.                           *)
(***************************************************************************)
NextStatusesSeq ==
  \/ NoneInFlight /\ StatusesSetupStart(1)
  \/ NoneInFlight /\ StatusesStart(1)
  \/ StatusesStep(1)

NextConvStatusesSeq ==
  \/ NoneInFlight /\ \E u \in Uids : ConvCreateStatus(u, now + STATUS_EXPIRY_HOURS)
  \/ NoneInFlight /\ ConvStatusStart(1)
  \/ ConvViewStatusGotStatus(1)

NextViewSeq ==
  \/ loaded = Numeric /\ NextStatusesSeq
  \/ loaded = Conversation /\ NextConvStatusesSeq
  \/ Tick

SpecViewSeq == Init /\ [][NextViewSeq]_vars

(***************************************************************************)
(* Specification of the status lists of either store: statuses are created *)
(* and listed one request or call at a time while the clock runs past      *)
(* their expiry.                                                           *)
(***************************************************************************)
NextFeedNumeric ==
  \/ NoneInFlight /\ StatusesSetupStart(1)
  \/ NoneInFlight /\ \E uid \in Uids : CreateStatusStart(1, uid, "a", None)
  \/ NoneInFlight /\ GetStatusesStart(1)
  \/ NoneInFlight /\ \E u \in UserIds : GetUserStatusesCall(u)
  \/ AuthSessionGotUser(1)
  \/ CreateStatusGotUser(1)
  \/ GetStatusesDone(1)

NextFeedConversation ==
  \/ \E u \in Uids : ConvCreateStatus(u, now + STATUS_EXPIRY_HOURS)
  \/ ConvGetAllStatuses
  \/ \E u \in Uids : ConvGetUserStatuses(u)

NextFeed ==
  \/ loaded = Numeric /\ NextFeedNumeric
  \/ loaded = Conversation /\ NextFeedConversation
  \/ \E h \in {1, STATUS_EXPIRY_HOURS - 1} : Elapse(h)

SpecFeed == Init /\ [][NextFeed]_vars

(***************************************************************************)
(* Specification of the notifications: requests run one at a time (nobody  *)
(* is added to a chat twice) while sockets connect, authenticate and close *)
(* between any two of their steps.                                         *)
(***************************************************************************)
NotifyStart(r) ==
  \/ \E uid \in Uids : AuthSessionStart(r, uid)
  \/ \E uid \in Uids : CreateChatStart(r, uid, "direct", "")
  \/ \E chatId \in ChatIds, userId \in UserIds :
        /\ \A i \in getChatMembers(chatId) : chatMembers[i].userId # userId
        /\ AddMemberStart(r, chatId, userId, FALSE)
  \/ \E uid \in Uids, chatId \in ChatIds : SendMessageStart(r, uid, chatId, "a")

NotifyStep(r) ==
  \/ AuthSessionGotUser(r)
  \/ CreateChatGotUser(r)
  \/ CreateChatAddCreator(r)
  \/ AddMemberGotChat(r)
  \/ SendMessageGotUser(r)
  \/ SendMessageCreated(r)
  \/ SendMessageUpdated(r)
  \/ SendMessageNotified(r)

WsEvent ==
  \/ \E c \in Conns : WsConnection(c)
  \/ \E c \in Conns, type \in {"auth", "ping"}, userId \in Uids \cup {None} :
        WsMessage(c, type, userId)
  \/ \E c \in Conns : WsClosing(c)
  \/ \E c \in Conns : WsClose(c)

NextNotify ==
  \/ NoneInFlight /\ NotifyStart(1)
  \/ NotifyStep(1)
  \/ WsEvent

SpecNotify == InitNumeric /\ [][NextNotify]_vars

(***************************************************************************)
(* Specification of id allocation in either store: every operation that    *)
(* creates or deletes an entity, one request or call at a time.            *)
(***************************************************************************)
NextIdsNumeric ==
  \/ NextMembersSeq
  \/ NoneInFlight /\ \E chatId \in ChatIds : SendMessageStart(1, 1, chatId, "a")
  \/ NoneInFlight /\ CreateStatusStart(1, 1, "a", None)
  \/ SendMessageGotUser(1)
  \/ SendMessageCreated(1)
  \/ SendMessageUpdated(1)
  \/ SendMessageNotified(1)
  \/ CreateStatusGotUser(1)

NextIdsConversation ==
  \/ NoneInFlight /\ CreateEmptyConversation(1)
  \/ NoneInFlight /\ \E c \in ConversationIds : ConvCreateMessageStart(1, c, 1, "a")
  \/ NoneInFlight /\ ConvCreateStatus(1, now + STATUS_EXPIRY_HOURS)
  \/ NoneInFlight /\ ConvStatusStart(1)
  \/ ConvCreateMessageUpdate(1)
  \/ ConvViewStatusGotStatus(1)

NextIds ==
  \/ loaded = Numeric /\ NextIdsNumeric
  \/ loaded = Conversation /\ NextIdsConversation

SpecIds == Init /\ [][NextIds]_vars

(***************************************************************************)
(* Membership claims.                                                      *)
(***************************************************************************)
MemberCount(c) == Cardinality(getChatMembers(c))
GroupChats == {c \in DOMAIN chats : chats[c].type = "group"}
DirectChats == {c \in DOMAIN chats : chats[c].type = "direct"}
CapacityError == [op |-> "addMember", status |-> 400, error |-> "maximum number of members"]

\* The step in which the add-member request of slot r writes its response.
AddMemberResponds(r) ==
  /\ reqs[r].op = "addMember"
  /\ reqs'[r] = Idle

C2_NoOverCapacityUnderInterleaving ==
  \A c \in GroupChats : MemberCount(c) <= MAX_GROUP_MEMBERS

\* C3: a direct chat that has exactly 2 members still has exactly 2 members
\* after any step.
C3_DirectChatStaysAtTwo ==
  [][\A c \in DirectChats :
        MemberCount(c) = 2
        => Cardinality({i \in DOMAIN chatMembers' : chatMembers'[i].chatId = c}) = 2]_vars

\* C4: there is at most one membership row for each (chatId, userId) pair.
C4_OneRowPerPair ==
  \A i, j \in DOMAIN chatMembers :
     ( /\ chatMembers[i].chatId = chatMembers[j].chatId
       /\ chatMembers[i].userId = chatMembers[j].userId ) => i = j

(***************************************************************************)
(* Message claims of the numeric-id store.                                 *)
(***************************************************************************)
IsMember(c, u) ==
  \E i \in DOMAIN chatMembers : chatMembers[i].chatId = c /\ chatMembers[i].userId = u
MessagesOf(c) == {m \in DOMAIN messages : messages[m].chatId = c}

\* C5: when a send-message request of a signed-in user who is not a member of
\* the (existing) chat passes its user lookup, the request ends there with an
\* error response and no message is stored.
C5_NonMemberSendFails ==
  [][\A r \in Slots :
        ( /\ reqs[r].op = "sendMessage"
          /\ reqs[r].pc = "getUser"
          /\ reqs'[r] # reqs[r]
          /\ reqs[r].user # None
          /\ reqs[r].chatId \in DOMAIN chats
          /\ ~IsMember(reqs[r].chatId, reqs[r].user) )
        => ( /\ messages' = messages
             /\ reqs'[r] = Idle
             /\ resp'.status >= 400 )]_vars

\* C6: when a send-message request has updated its chat, the chat's
\* lastMessage and lastMessageTime are the content and the creation timestamp
\* of the chat's most recently created message, whatever other sends and
\* clock ticks are interleaved with it.
C6_LastMessageIsLatest ==
  [][\A r \in Slots :
        ( /\ reqs[r].op = "sendMessage"
          /\ reqs[r].pc = "createMessage"
          /\ reqs'[r] # reqs[r]
          /\ reqs[r].chatId \in DOMAIN chats )
        => LET c == reqs[r].chatId
               latest == Max(MessagesOf(c))
           IN /\ chats'[c].lastMessage = messages[latest].content
              /\ chats'[c].lastMessageTime = messages[latest].timestamp]_vars

(***************************************************************************)
(* View and read claims.                                                   *)
(***************************************************************************)
Elems(list) == {list[i] : i \in DOMAIN list}
NoDuplicates(list) == \A i, j \in DOMAIN list : list[i] = list[j] => i = j

\* C7: with calls made one after another, a viewStatus(s, v) on an existing
\* status whose viewedBy already holds v changes nothing in the store, and one
\* whose viewedBy does not hold v appends v once and (in the store that keeps
\* a view count) raises the count by exactly 1 and records one StatusView; so
\* any number of calls leaves what the first one left.
C7_ViewStatusIdempotent ==
  [][\A r \in Slots :
        /\ ( /\ reqs[r].op = "viewStatus"
             /\ reqs'[r] = Idle
             /\ reqs[r].user # None
             /\ reqs[r].statusId \in DOMAIN statuses )
           => LET s == reqs[r].statusId
                  v == reqs[r].user
              IN IF v \in Elems(statuses[s].viewedBy)
                   THEN UNCHANGED storeA
                   ELSE /\ statuses' = [statuses EXCEPT ![s].viewedBy = Append(@, v)]
                        /\ UNCHANGED statusIdCounter
        /\ ( /\ reqs[r].op = "store.viewStatus"
             /\ reqs'[r] = Idle
             /\ reqs[r].statusId \in DOMAIN csStatuses )
           => LET s == reqs[r].statusId
                  v == reqs[r].viewerId
              IN IF v \in Elems(csStatuses[s].viewedBy)
                   THEN UNCHANGED storeB
                   ELSE /\ csStatuses' = [csStatuses EXCEPT
                              ![s].viewedBy = Append(@, v), ![s].viewCount = @ + 1]
                        /\ Len(statusViews'[s]) = Len(GetOrEmpty(statusViews, s)) + 1
                        /\ UNCHANGED csStatusId]_vars

\* C7's case: the last call was a viewStatus that found its viewer already
\* listed, and the status it was about counts that viewer once.
C7_Witness ==
  /\ resp.op = "store.viewStatus"
  /\ resp.via = "already viewed"
  /\ \E s \in DOMAIN csStatuses :
        /\ csStatuses[s].viewCount = 1
        /\ Len(csStatuses[s].viewedBy) = 1
        /\ Len(statusViews[s]) = 1

\* C8: no viewedBy or readBy list of either store ever holds a user twice,
\* and every step leaves each of these lists with all the users it held.
C8_ListsOnlyGrow ==
  /\ [](/\ \A m \in DOMAIN messages : NoDuplicates(messages[m].readBy)
        /\ \A s \in DOMAIN statuses : NoDuplicates(statuses[s].viewedBy)
        /\ \A m \in DOMAIN csMessages : NoDuplicates(csMessages[m].readBy)
        /\ \A s \in DOMAIN csStatuses : NoDuplicates(csStatuses[s].viewedBy))
  /\ [][/\ \A m \in DOMAIN messages :
              Elems(messages[m].readBy) \subseteq Elems(messages'[m].readBy)
        /\ \A s \in DOMAIN statuses :
              Elems(statuses[s].viewedBy) \subseteq Elems(statuses'[s].viewedBy)
        /\ \A m \in DOMAIN csMessages :
              Elems(csMessages[m].readBy) \subseteq Elems(csMessages'[m].readBy)
        /\ \A s \in DOMAIN csStatuses :
              Elems(csStatuses[s].viewedBy) \subseteq Elems(csStatuses'[s].viewedBy)]_vars

\* C9: with calls made one after another, no readBy holds a user twice; a
\* markMessageAsRead(m, u) (made directly or by markConversationAsRead) on a
\* message whose readBy already holds u, the sender included, changes nothing,
\* and one whose readBy does not hold u appends u once.
C9_MarkReadIdempotent ==
  /\ [](\A m \in DOMAIN csMessages : NoDuplicates(csMessages[m].readBy))
  /\ [][\A r \in Slots :
          ( /\ reqs[r].op \in {"store.markMessageAsRead", "store.markConversationAsRead"}
            /\ reqs[r].pc = "getMessage"
            /\ reqs'[r] # reqs[r]
            /\ reqs[r].message # NoEntity )
          => LET m == reqs[r].message.id
                 u == reqs[r].userId
             IN IF u \in Elems(csMessages[m].readBy)
                  THEN UNCHANGED storeB
                  ELSE /\ csMessages' = [csMessages EXCEPT ![m].readBy = Append(@, u)]
                       /\ UNCHANGED csMessageId]_vars

\* C9's case: the last call was a markMessageAsRead that found its user
\* already listed, on a message read by its sender and one more user.
C9_Witness ==
  /\ resp.op = "store.markMessageAsRead"
  /\ resp.via = "already read"
  /\ \E m \in DOMAIN csMessages :
        /\ csMessages[m].senderId # None
        /\ Len(csMessages[m].readBy) = 2

ListOps == {"getStatuses", "getUserStatuses", "store.getAllStatuses", "store.getUserStatuses"}
\* The statuses a list answered at clock reading t must hold: those of the
\* store (of the user, for a user's list) that have not expired at t.
ActiveAt(all, t, userId) ==
  {s \in DOMAIN all : t < all[s].expiresAt /\ (userId = None \/ all[s].userId = userId)}

\* The clock reading of the query answered in this step: the handler of
\* GET /api/statuses took it when it called getStatuses, the other lists are
\* computed in the step that answers.
QueryTime ==
  IF \E r \in Slots : reqs[r].op = "getStatuses" /\ reqs'[r] = Idle
    THEN reqs[CHOOSE r \in Slots : reqs[r].op = "getStatuses" /\ reqs'[r] = Idle].at
    ELSE now

\* C11: a status list answered to a query that read the clock at t holds a
\* stored status if and only if t is before the status's expiresAt; statuses
\* stay in the store after they expire.
C11_ListsHoldExactlyTheActive ==
  [][(resp' # resp /\ resp'.op \in ListOps)
       => /\ resp'.result =
               ActiveAt(IF loaded = Numeric THEN statuses ELSE csStatuses,
                        QueryTime, resp'.userId)
          /\ DOMAIN statuses \subseteq DOMAIN statuses'
          /\ DOMAIN csStatuses \subseteq DOMAIN csStatuses']_vars

(***************************************************************************)
(* Notification claims.                                                    *)
(***************************************************************************)
\* The step in which the send-message request of slot r runs its
\* notification loop and answers.
Notifies(r) ==
  /\ reqs[r].op = "sendMessage"
  /\ reqs[r].pc = "getChatMembers"
  /\ reqs'[r] = Idle

\* The uid a member row's user signed in with (None without a user row).
UidOf(i) ==
  IF chatMembers[i].userId \in DOMAIN users
    THEN users[chatMembers[i].userId].firebaseUid ELSE None

\* The registered sockets of the members of chat c other than the sender.
RegisteredOthers(c, senderId) ==
  {clients[UidOf(i)] : i \in {j \in getChatMembers(c) :
                                 /\ chatMembers[j].userId # senderId
                                 /\ UidOf(j) \in DOMAIN clients}}
\* Those of them that are open.
DueSockets(c, senderId) ==
  {ws \in RegisteredOthers(c, senderId) : sockets[ws].readyState = "OPEN"}

\* C12: a send-message request that answers 201 has sent the event on exactly
\* the open registered sockets of the chat's members other than the sender
\* and returns the message it created; and it answers 201 when there is no
\* such socket.
C12_FanOutReachesExactlyTheOthers ==
  [][\A r \in Slots :
        Notifies(r)
        => LET due == DueSockets(reqs[r].chatId, reqs[r].user)
           IN /\ resp'.status = 201
                   => /\ Elems(resp'.delivered) = due
                      /\ resp'.message = reqs[r].message
                      /\ reqs[r].message \in DOMAIN messages
              /\ due = {} => resp'.status = 201]_vars

\* C12's case: a 201 whose event went to one socket while the sender's own
\* socket, registered and open, got none.
C12_Witness ==
  /\ resp.op = "sendMessage"
  /\ resp.status = 201
  /\ Len(resp.delivered) = 1
  /\ LET senderId == messages[resp.message].senderId
     IN /\ senderId \in DOMAIN users
        /\ users[senderId].firebaseUid \in DOMAIN clients
        /\ sockets[clients[users[senderId].firebaseUid]].readyState = "OPEN"
        /\ clients[users[senderId].firebaseUid] \notin Elems(resp.delivered)

\* C13: whatever happens to the sends of the notification loop, the request
\* answers 201 with the message it stored and has called send on every due
\* socket.
C13_DeliveryFailureNotSurfaced ==
  [][\A r \in Slots :
        Notifies(r)
        => /\ resp'.status = 201
           /\ resp'.message = reqs[r].message
           /\ Elems(resp'.attempted) = DueSockets(reqs[r].chatId, reqs[r].user)]_vars

\* C14: an auth message of socket ws naming user u leaves the registry with
\* u mapped to ws and every other entry as it was, so the entry of a user is
\* the socket that authenticated as that user last.
C14_LastRegisteredWins ==
  [][(resp' # resp /\ resp'.op = "ws.auth")
       => clients' = [u \in DOMAIN clients \cup {resp'.userId} |->
                         IF u = resp'.userId THEN resp'.conn ELSE clients[u]]]_vars

\* C14's case: the second socket authenticated as the user the first, still
\* open, had authenticated as, and holds the entry.
C14_Witness ==
  /\ resp.op = "ws.auth"
  /\ resp.conn = 2
  /\ sockets[1].readyState = "OPEN"
  /\ sockets[1].userId = resp.userId
  /\ clients[resp.userId] = 2

\* C15: the notification loop calls send on open sockets only, and when no
\* other member has an open registered socket it calls send on none and the
\* request answers 201.
C15_SendsOnOpenSocketsOnly ==
  [][\A r \in Slots :
        Notifies(r)
        => /\ \A i \in DOMAIN resp'.attempted :
                 sockets[resp'.attempted[i]].readyState = "OPEN"
           /\ DueSockets(reqs[r].chatId, reqs[r].user) = {}
                 => resp'.status = 201 /\ resp'.attempted = << >>]_vars

\* C15's case: a 201 that called send on no socket although another member
\* is registered, with a socket that is closing.
C15_Witness ==
  /\ resp.op = "sendMessage"
  /\ resp.status = 201
  /\ resp.attempted = << >>
  /\ \E ws \in RegisteredOthers(messages[resp.message].chatId,
                                messages[resp.message].senderId) :
        sockets[ws].readyState = "CLOSING"

(***************************************************************************)
(* Creation claims.                                                        *)
(***************************************************************************)
\* C16: in every reachable state the sender of every stored message, of
\* either store, is in the message's readBy.
C16_SenderHasRead ==
  /\ \A m \in DOMAIN messages : messages[m].senderId \in Elems(messages[m].readBy)
  /\ \A m \in DOMAIN csMessages : csMessages[m].senderId \in Elems(csMessages[m].readBy)

\* No entry of map m sits at or above the counter that issues m's ids.
Issued(m, counter) == \A i \in DOMAIN m : i < counter
\* A step's new entries of m sit at or above the counter as it was, which
\* does not go down.
FreshIds(old, new, counter, counterAfter) ==
  /\ counterAfter >= counter
  /\ \A i \in (DOMAIN new) \ (DOMAIN old) : i >= counter /\ i < counterAfter

C17_FailedCreateMessageStoresNothing ==
  [][\A r \in Slots :
        ( /\ reqs[r].op = "store.createMessage"
          /\ reqs'[r] = Idle
          /\ resp'.outcome = "threw" )
        => /\ reqs[r].message.id \notin DOMAIN csMessages'
           /\ \A c \in DOMAIN messagesByConversation' :
                 \A i \in DOMAIN messagesByConversation'[c] :
                    messagesByConversation'[c][i].id # reqs[r].message.id]_vars

(***************************************************************************)
(* Specification of chat creation in either store, every request or call   *)
(* settling before the next one is made: through POST /api/chats on the    *)
(* numeric-id store, through createConversation on the conversation-keyed  *)
(* store.                                                                  *)
(***************************************************************************)
\* name of the request body: a text, the empty text, or none
ChatNames == {"team", "", NoText}
\* the memberIds argument
MemberIdLists == UNION {[1..n -> Uids] : n \in 0..MaxMemberIds}

NextCreateNumeric ==
  \/ NoneInFlight /\ \E uid \in Uids : AuthSessionStart(1, uid)
  \/ NoneInFlight /\ \E uid \in Uids, type \in ChatTypes \cup {"missing"},
                        name \in ChatNames : CreateChatStart(1, uid, type, name)
  \/ NoneInFlight /\ MembersAddStart(1)
  \/ MembersStep(1)

ConvCreateConversationStep(r) ==
  \/ ConvCreateConversationGotConversation(r)
  \/ ConvCreateConversationUpdated(r)
  \/ ConvCreateConversationLoop(r)

NextCreateConversation ==
  \/ NoneInFlight /\ \E createdBy \in Uids, isGroup \in BOOLEAN, name \in ChatNames,
                        memberIds \in MemberIdLists :
        ConvCreateConversationStart(1, createdBy, isGroup, name, memberIds)
  \/ ConvCreateConversationStep(1)

NextCreate ==
  \/ loaded = Numeric /\ NextCreateNumeric
  \/ loaded = Conversation /\ NextCreateConversation

SpecCreate == Init /\ [][NextCreate]_vars

\* The membership rows of a chat of the numeric-id store, and the earliest.
RowsOf(chatId) == {m \in DOMAIN chatMembers : chatMembers[m].chatId = chatId}
CreatingChat == \E r \in Slots : reqs[r].op \in {"createChat", "store.createConversation"}

\* C19: in every state with no create-chat in progress, every chat has a
\* membership, and its first membership is its creator's with the admin flag
\* true (numeric-id store: the row with the lowest id among the chat's rows;
\* conversation-keyed store: the first entry of the conversation's list).
C19_CreatorIsFirstAdminMember ==
  ~CreatingChat =>
    /\ \A c \in DOMAIN chats :
          /\ RowsOf(c) # {}
          /\ chatMembers[Min(RowsOf(c))].userId = chats[c].createdBy
          /\ chatMembers[Min(RowsOf(c))].isAdmin
    /\ \A c \in DOMAIN conversations :
          /\ GetOrEmpty(conversationMembers, c) # << >>
          /\ conversationMembers[c][1].userId = conversations[c].createdBy
          /\ conversationMembers[c][1].isAdmin

\* An empty or missing name.
NoName(name) == name \in {"", NoText}

\* C20: a create-chat for a group with an empty or missing name is answered
\* with a validation error (400) and stores neither a chat nor a membership;
\* no step of either store brings in a group chat without a name.
C20_GroupWithoutNameIsRejected ==
  [][/\ \A r \in Slots :
          ( /\ reqs[r].op = "createChat"
            /\ reqs[r].pc = "getUser"
            /\ reqs[r].user # None
            /\ reqs[r].type = "group"
            /\ NoName(reqs[r].name)
            /\ reqs'[r] # reqs[r] )
          => /\ reqs'[r] = Idle
             /\ resp'.status = 400
             /\ chats' = chats
             /\ chatMembers' = chatMembers
     /\ \A c \in DOMAIN chats' \ DOMAIN chats :
          ~(chats'[c].type = "group" /\ NoName(chats'[c].name))
     /\ \A c \in DOMAIN conversations' \ DOMAIN conversations :
          ~(conversations'[c].isGroup /\ NoName(conversations'[c].name))]_vars

(***************************************************************************)
(* Specification of the membership operations of either store, every       *)
(* request or call settling before the next one is made: the three         *)
(* requests and removeChatMember on the numeric-id store; createConversation,*)
(* addMemberToConversation and removeMemberFromConversation on the         *)
(* conversation-keyed store.                                               *)
(***************************************************************************)
ConvMemberStep(r) ==
  \/ ConvAddMemberGotConversation(r)
  \/ ConvAddMemberUpdated(r)
  \/ ConvRemoveMemberGotConversation(r)
  \/ ConvRemoveMemberUpdated(r)

NextConvMembersSeq ==
  \/ NoneInFlight /\ \E createdBy \in Uids, memberIds \in MemberIdLists :
        ConvCreateConversationStart(1, createdBy, TRUE, "team", memberIds)
  \/ NoneInFlight /\ \E c \in ConversationIds, u \in Uids :
        ConvAddMemberStart(1, c, u, FALSE)
  \/ NoneInFlight /\ \E c \in ConversationIds, u \in Uids :
        ConvRemoveMemberStart(1, c, u)
  \/ ConvCreateConversationStep(1)
  \/ ConvMemberStep(1)

NextJoin ==
  \/ loaded = Numeric /\ NextMembersSeq
  \/ loaded = Conversation /\ NextConvMembersSeq

SpecJoin == Init /\ [][NextJoin]_vars
SpecConvMembersSeq == InitConversation /\ [][NextConvMembersSeq]_vars

\* C21: an add-member for a chat that does not exist is answered with a
\* not-found error (404; a throw from the store) and adds no membership
\* record; after every step each membership record refers to a chat that
\* exists.
C21_MembershipsReferToChats ==
  [][/\ \A r \in Slots :
          ( /\ reqs[r].op = "addMember"
            /\ reqs[r].pc = "getChat"
            /\ reqs[r].chat = "none"
            /\ reqs'[r] # reqs[r] )
          => /\ reqs'[r] = Idle
             /\ resp'.status = 404
             /\ chatMembers' = chatMembers
     /\ \A m \in DOMAIN chatMembers' : chatMembers'[m].chatId \in DOMAIN chats'
     /\ \A c \in DOMAIN conversationMembers' :
          conversationMembers'[c] # << >> => c \in DOMAIN conversations']_vars

\* The membership list of a conversation as its reader sees it.
MembersOfConversation(cm, c) == GetOrEmpty(cm, c)

\* C22: removing a member is total and idempotent.  Numeric-id store: a
\* step that deletes a membership row leaves no row of that (chat, user)
\* pair, so a second removal finds nothing to remove, and leaves every other
\* row and every chat as it was.  Conversation-keyed store: the call never
\* throws; once its list is written no row of the user is in it, the rows of
\* the other users are all still there, and the other conversations' lists
\* are as they were.
C22_RemoveIsIdempotent ==
  [][/\ \A m \in DOMAIN chatMembers \ DOMAIN chatMembers' :
          /\ \A k \in DOMAIN chatMembers' :
                /\ chatMembers'[k] = chatMembers[k]
                /\ ~( /\ chatMembers'[k].chatId = chatMembers[m].chatId
                      /\ chatMembers'[k].userId = chatMembers[m].userId )
          /\ chats' = chats
     /\ \A r \in Slots :
          /\ ( /\ reqs[r].op = "idle"
               /\ reqs'[r].op = "store.removeMemberFromConversation" )
             => LET c == reqs'[r].id
                    u == reqs'[r].userId
                    before == MembersOfConversation(conversationMembers, c)
                    after == MembersOfConversation(conversationMembers', c)
                IN  /\ Elems(after) = {m \in Elems(before) : m.userId # u}
                    /\ Len(after) = Cardinality(Elems(after))
                    /\ \A d \in ConversationIds \ {c} :
                          MembersOfConversation(conversationMembers', d)
                            = MembersOfConversation(conversationMembers, d)
          /\ ( /\ reqs[r].op = "store.removeMemberFromConversation"
               /\ reqs'[r] = Idle )
             => resp'.outcome = "returned"]_vars

(***************************************************************************)
(* Specification of user sync in either store, requests and calls          *)
(* overlapping one another: an idle slot takes a new one at any time.      *)
(***************************************************************************)
NextSessionNumeric ==
  \/ \E r \in Slots, uid \in Uids : FirstIdle(r) /\ AuthSessionStart(r, uid)
  \/ \E r \in Slots : AuthSessionGotUser(r)

NextSessionConversation ==
  \/ \E r \in Slots, uid \in Uids : FirstIdle(r) /\ ConvCreateUserStart(r, uid)
  \/ \E r \in Slots : ConvCreateUserGotUser(r)

NextSession ==
  \/ loaded = Numeric /\ NextSessionNumeric
  \/ loaded = Conversation /\ NextSessionConversation

SpecSession == Init /\ [][NextSession]_vars

\* The users of either store that carry an external uid.
UsersWithUid(uid) ==
  {u \in DOMAIN users : users[u].firebaseUid = uid}
    \cup {u \in DOMAIN csUsers : csUsers[u].uid = uid}

\* C23: the store holds at most one user per external uid, and a createUser
\* call that has returned has returned that one user.
C23_OneUserPerUid ==
  /\ \A uid \in Uids : Cardinality(UsersWithUid(uid)) <= 1
  /\ resp.op = "store.createUser" => UsersWithUid(resp.uid) = {resp.user}

\* C24: a view of a status id that no status has ends in a not-found error
\* (a 404 from the handler, a throw from the store), never in a success, and
\* leaves the store as it was.
C24_ViewOfMissingStatusFails ==
  [][\A r \in Slots :
        /\ ( /\ reqs[r].op = "viewStatus"
             /\ reqs'[r] = Idle
             /\ reqs[r].user # None
             /\ reqs[r].statusId \notin DOMAIN statuses )
           => /\ resp'.status = 404
              /\ UNCHANGED storeA
        /\ ( /\ reqs[r].op = "store.viewStatus"
             /\ reqs'[r] = Idle
             /\ reqs[r].statusId \notin DOMAIN csStatuses )
           => /\ resp'.outcome = "threw"
              /\ UNCHANGED storeB]_vars

\* C25: when getChatMembers is called, every membership in what it resolves
\* to belongs to a user that has a User record.
C25_MembersHaveUsers ==
  [][\A r \in Slots :
        ( /\ reqs'[r].op = "sendMessage"
          /\ reqs'[r].pc = "getChatMembers"
          /\ reqs'[r] # reqs[r] )
        => \A i \in DOMAIN reqs'[r].members :
              reqs'[r].members[i].userId \in DOMAIN users]_vars

\* viewCount of an entry of getStatuses: status.viewedBy.length.
FeedViewCount(status) == Len(status.viewedBy)

\* C26: every status reports as its view count the number of distinct users
\* in its viewedBy (numeric-id store: the count the feed computes;
\* conversation-keyed store: the stored viewCount, in the status map and in
\* the owner's list alike), and the conversation-keyed store holds exactly
\* one StatusView row for each of these viewers and no other row.
C26_ViewCountIsDistinctViewers ==
  /\ \A s \in DOMAIN statuses :
        FeedViewCount(statuses[s]) = Cardinality(Elems(statuses[s].viewedBy))
  /\ \A s \in DOMAIN csStatuses :
        LET viewers == Elems(csStatuses[s].viewedBy)
            rows == GetOrEmpty(statusViews, s)
            listed == GetOrEmpty(statusesByUser, csStatuses[s].userId)
        IN  /\ csStatuses[s].viewCount = Cardinality(viewers)
            /\ \A i \in DOMAIN listed :
                  listed[i].id = s => listed[i].viewCount = Cardinality(viewers)
            /\ Len(rows) = Cardinality(viewers)
            /\ {rows[i].viewerId : i \in DOMAIN rows} = viewers
            /\ \A i \in DOMAIN rows : rows[i].statusId = s
  /\ \A s \in DOMAIN statusViews : statusViews[s] # << >> => s \in DOMAIN csStatuses

\* C26's case: a status seen by two users, one of whom has just asked again.
C26_Witness ==
  /\ resp.op = "store.viewStatus"
  /\ resp.via = "already viewed"
  /\ \E s \in DOMAIN csStatuses :
        /\ csStatuses[s].viewCount = 2
        /\ Len(statusViews[s]) = 2

\* The same on the numeric-id store: the status of user 1 seen by both users.
C26_WitnessNumeric ==
  \E s \in DOMAIN statuses : Len(statuses[s].viewedBy) = 2

C28_CloseKeepsSuccessor ==
  [][\A c \in Conns :
        ( /\ sockets[c].readyState # "CLOSED"
          /\ sockets'[c].readyState = "CLOSED" )
        => \A u \in DOMAIN clients :
              clients[u] # c => /\ u \in DOMAIN clients'
                                /\ clients'[u] = clients[u]]_vars

\* C29: no registry entry refers to a connection whose close event has been
\* handled.
C29_NoEntryForClosedConnection ==
  \A u \in DOMAIN clients : sockets[clients[u]].readyState # "CLOSED"

(***************************************************************************)
(* Specification of the messages and statuses of the conversation-keyed    *)
(* store together, calls overlapping one another: an idle slot takes a new *)
(* createMessage, markMessageAsRead or viewStatus at any time.             *)
(***************************************************************************)
IndexStart(r) ==
  \/ \E c \in ConversationIds : ConvCreateMessageStart(r, c, 1, "a")
  \/ \E m \in MessageIds, u \in Uids : ConvMarkMessageAsReadStart(r, m, u)
  \/ ConvStatusStart(r)

NextIndex ==
  \/ NoneInFlight /\ CreateEmptyConversation(1)
  \/ NoneInFlight /\ ConvCreateStatus(1, now + STATUS_EXPIRY_HOURS)
  \/ \E r \in Slots : FirstIdle(r) /\ IndexStart(r)
  \/ \E r \in Slots : ConvMessageStep(r)
  \/ \E r \in Slots : ConvViewStatusGotStatus(r)

SpecIndex == InitConversation /\ [][NextIndex]_vars

\* The entries of the primary maps that belong under a key of an index.
MessagesWith(conversationId) ==
  {csMessages[m] : m \in {k \in DOMAIN csMessages :
                             csMessages[k].conversationId = conversationId}}
StatusesWith(userId) ==
  {csStatuses[s] : s \in {k \in DOMAIN csStatuses : csStatuses[k].userId = userId}}

\* C30: each conversation's message list holds, once each, exactly the
\* messages of the message map with that conversationId, and each user's
\* status list exactly the statuses of the status map with that userId; the
\* listed copy of a message or status equals the mapped one (readBy,
\* viewedBy and viewCount included).
C30_IndexesAgreeWithMaps ==
  /\ \A c \in ConversationIds \cup DOMAIN messagesByConversation :
        LET list == GetOrEmpty(messagesByConversation, c)
        IN  /\ Elems(list) = MessagesWith(c)
            /\ Len(list) = Cardinality(MessagesWith(c))
  /\ \A u \in Uids \cup DOMAIN statusesByUser :
        LET list == GetOrEmpty(statusesByUser, u)
        IN  /\ Elems(list) = StatusesWith(u)
            /\ Len(list) = Cardinality(StatusesWith(u))

\* C30's case: a message read by a second user and a viewed status, each
\* with its listed copy.
C30_Witness ==
  /\ \E m \in DOMAIN csMessages :
        /\ Len(csMessages[m].readBy) = 2
        /\ csMessages[m] \in Elems(messagesByConversation[csMessages[m].conversationId])
  /\ \E s \in DOMAIN csStatuses :
        /\ csStatuses[s].viewCount = 1
        /\ csStatuses[s] \in Elems(statusesByUser[csStatuses[s].userId])

====
